---- MODULE Spec2Model ----
(***************************************************************************)
(* zonaite.forecast.gfs: selective download of GFS records.                *)
(*                                                                         *)
(* Text is modelled as a sequence of one-character strings (a word that    *)
(* holds no colon, blank or line break may be written as one token).       *)
(* Python's None is the empty sequence, a present value v is <<v>>.        *)
(***************************************************************************)
EXTENDS Integers, Sequences, FiniteSets, TLC

\* ------------------------------------------------------------------ bounds

\* Most lines of one index text.
MaxLines == 3
\* Most requested (variable, level) targets of one call.
MaxTargets == 2

\* ------------------------------------------------------------- Python text

None == <<>>

Some(v) == <<v>>

NL == "\n"

Whitespace == {" ", "\t", "\r", NL}

Digits == {"0", "1", "2", "3", "4", "5", "6", "7", "8", "9"}

DigitVal(c) ==
    CASE c = "0" -> 0 [] c = "1" -> 1 [] c = "2" -> 2 [] c = "3" -> 3
      [] c = "4" -> 4 [] c = "5" -> 5 [] c = "6" -> 6 [] c = "7" -> 7
      [] c = "8" -> 8 [] c = "9" -> 9

\* str.split(sep): the pieces between the separators, n separators giving
\* n + 1 pieces (an empty text gives one empty piece).
\* The pieces of s from position i on, the current piece having begun at
\* position `start`.
RECURSIVE SplitFrom(_, _, _, _)
SplitFrom(s, sep, start, i) ==
    IF i > Len(s) THEN <<SubSeq(s, start, Len(s))>>
    ELSE IF s[i] = sep
    THEN <<SubSeq(s, start, i - 1)>> \o SplitFrom(s, sep, i + 1, i + 1)
    ELSE SplitFrom(s, sep, start, i + 1)

Split(s, sep) == SplitFrom(s, sep, 1, 1)

\* str.strip(): leading and trailing whitespace removed.
RECURSIVE LStrip(_)
LStrip(s) ==
    IF s # <<>> /\ Head(s) \in Whitespace THEN LStrip(Tail(s)) ELSE s

RECURSIVE RStrip(_)
RStrip(s) ==
    IF s # <<>> /\ s[Len(s)] \in Whitespace
    THEN RStrip(SubSeq(s, 1, Len(s) - 1)) ELSE s

Strip(s) == LStrip(RStrip(s))

RECURSIVE DecimalValue(_, _)
DecimalValue(s, acc) ==
    IF s = <<>> THEN acc
    ELSE DecimalValue(Tail(s), 10 * acc + DigitVal(Head(s)))

\* int(text): surrounding whitespace and one sign are accepted, then at
\* least one decimal digit and nothing else; anything else raises ValueError.
IntOf(text) ==
    LET t == Strip(text)
        signed == t # <<>> /\ Head(t) \in {"+", "-"}
        body == IF signed THEN Tail(t) ELSE t
        good == body # <<>> /\ \A k \in 1..Len(body) : body[k] \in Digits
        mag == IF good THEN DecimalValue(body, 0) ELSE 0
    IN  IF good
        THEN [ok |-> TRUE, val |-> IF signed /\ Head(t) = "-" THEN 0 - mag ELSE mag]
        ELSE [ok |-> FALSE, val |-> 0]

\* ------------------------------------------------------------ GribElement

GribElement(variable, level, start_byte, end_byte) ==
    [variable |-> variable, level |-> level,
     start_byte |-> start_byte, end_byte |-> end_byte]

\* ------------------------------------------------ GribIdx._parse_idx_content

\* The least number of colon-separated fields of an entry line.
MinFields == 6

\* The least number of fields a following line needs to supply an end offset.
MinNextFields == 2

\* EndByteOf, were the following line required to be an entry itself.
EndByteOfEntry(lines, i) ==
    IF i < Len(lines) /\ Strip(lines[i + 1]) # <<>>
       /\ Len(Split(Strip(lines[i + 1]), ":")) >= MinFields
    THEN LET n == IntOf(Split(Strip(lines[i + 1]), ":")[2])
         IN  IF n.ok THEN [raised |-> FALSE, end_byte |-> Some(n.val)]
             ELSE [raised |-> TRUE, end_byte |-> None]
    ELSE [raised |-> FALSE, end_byte |-> None]

\* The end offset the line after line i supplies: None when there is no such
\* line, it is blank or it has no offset field; "raised" when its offset field
\* is not a number.
EndByteOf(lines, i) ==
    IF i < Len(lines)
    THEN LET next_line == lines[i + 1]
         IN  IF Strip(next_line) # <<>>
             THEN LET next_parts == Split(Strip(next_line), ":")
                  IN  IF Len(next_parts) >= MinNextFields
                      THEN LET n == IntOf(next_parts[2])
                           IN  IF n.ok THEN [raised |-> FALSE, end_byte |-> Some(n.val)]
                               ELSE [raised |-> TRUE, end_byte |-> None]
                      ELSE [raised |-> FALSE, end_byte |-> None]
             ELSE [raised |-> FALSE, end_byte |-> None]
    ELSE [raised |-> FALSE, end_byte |-> None]

\* The loop of _parse_idx_content from line i on, `elements` being the
\* records appended so far. A ValueError of int() leaves the loop at once.
RECURSIVE ParseFrom(_, _, _)
ParseFrom(lines, i, elements) ==
    IF i > Len(lines) THEN [raised |-> FALSE, elements |-> elements]
    ELSE LET line == lines[i]
         IN  IF Strip(line) = <<>> THEN ParseFrom(lines, i + 1, elements)
             ELSE LET parts == Split(Strip(line), ":")
                  IN  IF Len(parts) >= MinFields
                      THEN LET s == IntOf(parts[2])
                               e == EndByteOf(lines, i)
                           IN  IF ~s.ok \/ e.raised
                               THEN [raised |-> TRUE, elements |-> elements]
                               ELSE IF e.end_byte # None
                               THEN ParseFrom(lines, i + 1,
                                      Append(elements,
                                        GribElement(parts[4], parts[5], s.val, e.end_byte[1])))
                               ELSE ParseFrom(lines, i + 1, elements)
                      ELSE ParseFrom(lines, i + 1, elements)

parse_idx_content(idx_content) == ParseFrom(Split(idx_content, NL), 1, <<>>)

\* ---------------------------------------------------- GribIdx.find_elements

Target(name, level) == [name |-> name, level |-> level]

Matches(elem, target) ==
    elem.variable = target.name /\ elem.level = target.level

\* The inner loop: the records of `elements` from position j on that match.
RECURSIVE ScanElements(_, _, _)
ScanElements(elements, target, j) ==
    IF j > Len(elements) THEN <<>>
    ELSE (IF Matches(elements[j], target) THEN <<elements[j]>> ELSE <<>>)
         \o ScanElements(elements, target, j + 1)

\* The targets of `target_elements` from position t on that record elem matches.
RECURSIVE ScanTargets(_, _, _)
ScanTargets(elem, target_elements, t) ==
    IF t > Len(target_elements) THEN <<>>
    ELSE (IF Matches(elem, target_elements[t]) THEN <<elem>> ELSE <<>>)
         \o ScanTargets(elem, target_elements, t + 1)

\* FindFrom, were the two loops nested the other way round: records outside,
\* targets inside.
RECURSIVE FindByRecord(_, _, _)
FindByRecord(elements, target_elements, j) ==
    IF j > Len(elements) THEN <<>>
    ELSE ScanTargets(elements[j], target_elements, 1)
         \o FindByRecord(elements, target_elements, j + 1)

\* The outer loop, over the targets from position t on.
RECURSIVE FindFrom(_, _, _)
FindFrom(elements, target_elements, t) ==
    IF t > Len(target_elements) THEN <<>>
    ELSE ScanElements(elements, target_elements[t], 1)
         \o FindFrom(elements, target_elements, t + 1)

find_elements(elements, target_elements) == FindFrom(elements, target_elements, 1)

get_byte_ranges(elements, target_elements) ==
    LET found == find_elements(elements, target_elements)
    IN  [k \in 1..Len(found) |-> <<found[k].start_byte, found[k].end_byte>>]

\* -------------------------------------------------------------- datetime

DateTime(year, month, day, hour, tz) ==
    [year |-> year, month |-> month, day |-> day, hour |-> hour, tz |-> tz]

\* The years a datetime can hold (datetime.MINYEAR..datetime.MAXYEAR).
Years == 1..9999

IsLeap(y) == (y % 4 = 0 /\ y % 100 # 0) \/ y % 400 = 0

DaysInMonth(y, m) ==
    IF m = 2 THEN (IF IsLeap(y) THEN 29 ELSE 28)
    ELSE IF m \in {4, 6, 9, 11} THEN 30 ELSE 31

PrevDay(d) ==
    IF d.day > 1 THEN [d EXCEPT !.day = d.day - 1]
    ELSE IF d.month > 1
    THEN [d EXCEPT !.month = d.month - 1, !.day = DaysInMonth(d.year, d.month - 1)]
    ELSE [d EXCEPT !.year = d.year - 1, !.month = 12, !.day = 31]

NextDay(d) ==
    IF d.day < DaysInMonth(d.year, d.month) THEN [d EXCEPT !.day = d.day + 1]
    ELSE IF d.month < 12 THEN [d EXCEPT !.month = d.month + 1, !.day = 1]
    ELSE [d EXCEPT !.year = d.year + 1, !.month = 1, !.day = 1]

\* dt.astimezone(timezone.utc) of an aware datetime whose offset is a whole
\* number of hours, less than a day either way.
AsTimezoneUtc(d) ==
    LET h == d.hour - d.tz[1]
        moved == IF h < 0 THEN [PrevDay(d) EXCEPT !.hour = h + 24]
                 ELSE IF h >= 24 THEN [NextDay(d) EXCEPT !.hour = h - 24]
                 ELSE [d EXCEPT !.hour = h]
    IN  [moved EXCEPT !.tz = Some(0)]

\* Lines 320-324: a naive datetime is taken as UTC, an aware one is converted;
\* a conversion that leaves the years a datetime can hold raises OverflowError.
NormalizeDt(d) ==
    IF d.tz = None THEN [raised |-> FALSE, dt |-> [d EXCEPT !.tz = Some(0)]]
    ELSE LET u == AsTimezoneUtc(d)
         IN  IF u.year \in Years THEN [raised |-> FALSE, dt |-> u]
             ELSE [raised |-> TRUE, dt |-> d]

DigitChar(n) ==
    CASE n = 0 -> "0" [] n = 1 -> "1" [] n = 2 -> "2" [] n = 3 -> "3"
      [] n = 4 -> "4" [] n = 5 -> "5" [] n = 6 -> "6" [] n = 7 -> "7"
      [] n = 8 -> "8" [] n = 9 -> "9"

\* A number as `width` decimal digits, zero-padded.
RECURSIVE ZeroPad(_, _)
ZeroPad(n, width) ==
    IF width = 0 THEN <<>>
    ELSE Append(ZeroPad(n \div 10, width - 1), DigitChar(n % 10))

\* dt.strftime("%Y%m%d")
StrfDate(d) == ZeroPad(d.year, 4) \o ZeroPad(d.month, 2) \o ZeroPad(d.day, 2)

\* dt.strftime("%H")
StrfHour(d) == ZeroPad(d.hour, 2)

\* ------------------------------------------------------------------ paths

\* The position of the last "/" of path p, 0 when it has none.
RECURSIVE LastSlash(_, _)
LastSlash(p, i) ==
    IF i = 0 THEN 0 ELSE IF p[i] = "/" THEN i ELSE LastSlash(p, i - 1)

RECURSIVE RStripSlash(_)
RStripSlash(p) ==
    IF p # <<>> /\ p[Len(p)] = "/" THEN RStripSlash(SubSeq(p, 1, Len(p) - 1)) ELSE p

\* os.path.dirname: what precedes the last "/", its trailing slashes dropped
\* unless it is all slashes; empty for a bare file name.
Dirname(p) ==
    LET head == SubSeq(p, 1, LastSlash(p, Len(p)))
    IN  IF head # <<>> /\ \E k \in 1..Len(head) : head[k] # "/"
        THEN RStripSlash(head) ELSE head

\* --------------------------------------------------------------- the store

\* Length of the remote grid file, in bytes.
GribLen == 6

\* The remote grid file: the byte at offset o has value o.
GribBytes(first, last) == [k \in 1..(last - first + 1) |-> first + k - 1]

Min(a, b) == IF a < b THEN a ELSE b

\* What get_object can answer to Range "bytes=<start>-<end - 1>": a raised
\* ClientError at any time; the bytes of a valid range, cut at the end of the
\* object; the whole object when the range is not a valid one.
RangeResponses(start_byte, end_byte) ==
    {[raised |-> TRUE, data |-> <<>>]}
    \cup (IF 0 <= start_byte /\ start_byte < end_byte
          THEN (IF start_byte < GribLen
                THEN {[raised |-> FALSE,
                       data |-> GribBytes(start_byte, Min(end_byte, GribLen) - 1)]}
                ELSE {})
          ELSE {[raised |-> FALSE, data |-> GribBytes(0, GribLen - 1)]})

\* f"gfs.{date_str}/{cycle_str}/atmos/gfs.t{cycle_str}z.pgrb2.0p25.f{forecast_hour}"
GribKey(date, cycle, fh) ==
    <<"gfs.">> \o date \o <<"/">> \o cycle \o <<"/atmos/gfs.t">> \o cycle
        \o <<"z.pgrb2.0p25.f">> \o fh

IdxKey(date, cycle, fh) == GribKey(date, cycle, fh) \o <<".idx">>

\* ------------------------------------------------------------------ state

VARIABLES
    dt,                 \* argument dt, reassigned by lines 320-324
    forecast_hour,      \* argument forecast_hour
    elements,           \* argument elements: the ordered targets
    output_path,        \* argument output_path
    idx_object,         \* the remote index object: None, or Some(its text)
    dirs,               \* the directories that exist
    dest,               \* the file at output_path: None, or Some(its bytes)
    dest0,              \* dest as it was when the call began
    dirs0,              \* dirs as they were when the call began
    pc,                 \* where download_gfs_data stands
    exc,                \* the exception that left download_gfs_data, if any
    result,             \* the GFSDownloadResult: None before line 330
    date_str,
    cycle_str,
    idx_content,        \* None before line 354
    grib_elements,      \* grib_idx.elements
    selected_elements,
    k,                  \* position of the loop of line 369 in selected_elements
    merged_data,
    total_bytes,
    log                 \* the remote and local operations issued so far

vars ==
    <<dt, forecast_hour, elements, output_path, idx_object, dirs, dest, dest0,
      dirs0, pc, exc, result, date_str, cycle_str, idx_content, grib_elements,
      selected_elements, k, merged_data, total_bytes, log>>

args == <<forecast_hour, elements, output_path>>

world == <<idx_object, dirs, dest, dest0, dirs0>>

parsed == <<idx_content, grib_elements, selected_elements>>

buffer == <<k, merged_data, total_bytes>>

\* ----------------------------------------------------------------- inputs

TMP == <<"T", "M", "P">>

UGRD == <<"U", "G", "R", "D">>

Level2m == <<"2", " ", "m">>

Level10m == <<"1", "0", " ", "m">>

\* An index line "1:<offset>:d=2025:<variable>:<level>:".
Entry(offset, variable, level) ==
    <<"1", ":">> \o offset \o <<":", "d", "=", "2", "0", "2", "5", ":">>
        \o variable \o <<":">> \o level \o <<":">>

EntryTmp0 == Entry(<<"0">>, TMP, Level2m)

EntryUgrd2 == Entry(<<"2">>, UGRD, Level10m)

EntryTmp5 == Entry(<<"5">>, TMP, Level2m)

\* An entry whose offset field is not a number.
EntryBadOffset == Entry(<<"x">>, UGRD, Level10m)

\* A line of two fields: it is no entry, but it has an offset field.
ShortLine == <<"9", ":", " ", "4">>

\* A line of two fields whose offset field is not a number.
ShortBadLine == <<"9", ":", "y">>

\* A line of one field.
NoOffsetLine == <<"#">>

BlankLine == <<" ">>

CoreLines == {EntryTmp0, EntryUgrd2, EntryTmp5, EntryBadOffset}

AllLines == CoreLines \cup {ShortLine, ShortBadLine, NoOffsetLine, BlankLine}

RECURSIVE JoinLines(_)
JoinLines(ls) ==
    IF ls = <<>> THEN <<>>
    ELSE IF Len(ls) = 1 THEN ls[1]
    ELSE ls[1] \o <<NL>> \o JoinLines(Tail(ls))

SeqsUpTo(S, n) == UNION {[1..m -> S] : m \in 0..n}

\* The index texts of at most MaxLines lines over `lines`, no line break
\* after the last line.
JoinedTexts(lines) == {JoinLines(ls) : ls \in SeqsUpTo(lines, MaxLines)}

\* The same texts, with and without a final line break.
IndexTexts(lines) ==
    JoinedTexts(lines) \cup {t \o <<NL>> : t \in JoinedTexts(lines)}

Targets ==
    {Target(TMP, Level2m), Target(UGRD, Level10m), Target(<<"t", "m", "p">>, Level2m)}

TargetLists == SeqsUpTo(Targets, MaxTargets)

\* A naive datetime, an aware one that is the same instant, and an aware one
\* whose UTC instant lies before year 1.
DtInputs ==
    {DateTime(2025, 2, 28, 18, None),
     DateTime(2025, 3, 1, 2, Some(8)),
     DateTime(1, 1, 1, 0, Some(8))}

\* "999" lies outside the forecast hours 000-384 the bucket holds.
ForecastHours == {<<"0", "0", "0">>, <<"9", "9", "9">>}

BarePath == <<"g", ".", "g", "r", "i", "b", "2">>

DirPath == <<"d", "a", "t", "a", "/">> \o BarePath

\* The bytes of a destination file that exists before the call.
OldBytes == <<9, 9>>

\* (output_path, dirs, dest) as a call can find them: a bare file name in the
\* working directory, a path whose directory is missing, and a path whose
\* directory exists, with or without the file.
FsInputs ==
    {<<BarePath, {}, None>>,
     <<DirPath, {}, None>>,
     <<DirPath, {Dirname(DirPath)}, None>>,
     <<DirPath, {Dirname(DirPath)}, Some(OldBytes)>>}

\* time.time() - total_start_time: the wall clock may stand still or step back.
Elapsed == {0 - 1, 0, 2}

\* ------------------------------------------------------------------- Init

InitWith(texts, targetLists) ==
    /\ dt \in DtInputs
    /\ forecast_hour \in ForecastHours
    /\ elements \in targetLists
    /\ \E f \in FsInputs : output_path = f[1] /\ dirs = f[2] /\ dest = f[3]
    /\ dest0 = dest
    /\ dirs0 = dirs
    /\ idx_object \in {None} \cup
         (IF forecast_hour = <<"0", "0", "0">> THEN {Some(t) : t \in texts} ELSE {})
    /\ pc = "call"
    /\ exc = None
    /\ result = None
    /\ date_str = None
    /\ cycle_str = None
    /\ idx_content = None
    /\ grib_elements = <<>>
    /\ selected_elements = <<>>
    /\ k = 1
    /\ merged_data = <<>>
    /\ total_bytes = 0
    /\ log = <<>>

Init == InitWith(JoinedTexts(CoreLines), TargetLists)

\* ------------------------------------------------------ GFSDownloadResult

\* total_bytes / 1024 / 1024 and its quotient by a time are kept as exact
\* fractions.
MiB == 1024 * 1024

Ratio(num, den) == [num |-> num, den |-> den]

\* Lines 330-337: the dataclass defaults fill what the call does not pass.
NewResult(date, cycle, fh, elems, path) ==
    [success |-> FALSE, date |-> date, cycle |-> cycle, forecast_hour |-> fh,
     elements |-> elems, file_format |-> "grib2", file_path |-> Some(path),
     file_size_mb |-> None, download_time_s |-> None,
     download_speed_mbs |-> None, error_message |-> None]

\* Lines 360-363: the message of an empty match.
NotFoundResult(res, elems) ==
    [res EXCEPT !.error_message = Some(<<"Specified elements not found: ", elems>>)]

\* Lines 401-405: the handler of every exception raised inside the try.
ErrorResult(res, e) ==
    [res EXCEPT !.error_message = Some(<<"Error downloading data: ", e>>)]

\* SuccessResult, were the throughput left unset.
SuccessResultNoSpeed(res, bytes, total_time) ==
    [res EXCEPT !.success = TRUE,
                !.file_size_mb = Some(Ratio(bytes, MiB)),
                !.download_time_s = Some(total_time)]

\* Lines 382-391.
SuccessResult(res, bytes, total_time) ==
    [res EXCEPT !.success = TRUE,
                !.file_size_mb = Some(Ratio(bytes, MiB)),
                !.download_time_s = Some(total_time),
                !.download_speed_mbs =
                    Some(IF total_time > 0 THEN Ratio(bytes, MiB * total_time)
                         ELSE Ratio(0, 1))]

LogEntry(op, key, first, last, ok, data) ==
    [op |-> op, key |-> key, first |-> first, last |-> last, ok |-> ok, data |-> data]

\* ---------------------------------------------------------------- actions

\* Lines 316-337, before the try: the timestamp is normalised and the result
\* record is built. An exception here leaves the function.
Normalize ==
    /\ pc = "call"
    /\ LET n == NormalizeDt(dt)
       IN  IF n.raised
           THEN /\ pc' = "raised"
                /\ exc' = Some("OverflowError: date value out of range")
                /\ UNCHANGED <<dt, result, date_str, cycle_str>>
           ELSE /\ pc' = "fetch_idx"
                /\ dt' = n.dt
                /\ date_str' = StrfDate(n.dt)
                /\ cycle_str' = StrfHour(n.dt)
                /\ result' = Some(NewResult(StrfDate(n.dt), StrfHour(n.dt),
                                            forecast_hour, elements, output_path))
                /\ exc' = exc
    /\ UNCHANGED <<args, world, parsed, buffer, log>>

\* The except clause of lines 401-405, reached from inside the try.
Except(e) ==
    /\ result' = Some(ErrorResult(result[1], e))
    /\ pc' = "returned"

\* Lines 341-354: the whole index object is fetched and decoded.
FetchIndex ==
    /\ pc = "fetch_idx"
    /\ \E answered \in IF idx_object = None THEN {FALSE} ELSE {TRUE, FALSE} :
         /\ log' = Append(log, LogEntry("get_object",
                                IdxKey(date_str, cycle_str, forecast_hour),
                                None, None, answered, <<>>))
         /\ IF answered
            THEN /\ idx_content' = Some(idx_object[1])
                 /\ pc' = "parse"
                 /\ result' = result
            ELSE /\ Except("ClientError: GetObject")
                 /\ idx_content' = idx_content
    /\ UNCHANGED <<dt, args, world, exc, date_str, cycle_str, grib_elements,
                   selected_elements, buffer>>

\* str(e) of the ValueError int() raises.
ValueErrorText == "invalid literal for int() with base 10"

\* Lines 357-367: the index is parsed, the targets are matched, and an empty
\* match returns.
ParseAndMatch ==
    /\ pc = "parse"
    /\ LET p == parse_idx_content(idx_content[1])
           found == find_elements(p.elements, elements)
       IN  IF p.raised
           THEN /\ Except(ValueErrorText)
                /\ UNCHANGED <<grib_elements, selected_elements>>
           ELSE /\ grib_elements' = p.elements
                /\ selected_elements' = found
                /\ IF found = <<>>
                   THEN /\ result' = Some(NotFoundResult(result[1], elements))
                        /\ pc' = "returned"
                   ELSE /\ result' = result
                        /\ pc' = "download"
    /\ UNCHANGED <<dt, args, world, exc, date_str, cycle_str, idx_content,
                   buffer, log>>

\* Extend, were the buffer replaced by the chunk.
ExtendOverwriting(data, chunk) == chunk

\* Line 374: merged_data.extend(chunk).
Extend(data, chunk) == data \o chunk

\* AbortDownload, were the buffer gathered so far saved on the way out.
AbortDownloadSavingPartial ==
    /\ Except("ClientError: GetObject")
    /\ dest' = Some(merged_data)
    /\ UNCHANGED <<buffer, idx_object, dirs, dest0, dirs0>>

\* AbortDownload, were a read that raises tried again.
AbortDownloadRetrying ==
    /\ pc' = "download"
    /\ result' = result
    /\ UNCHANGED <<buffer, world>>

\* A range read that raises leaves the loop for the except clause: the
\* buffer is dropped with the frame, nothing local is touched.
AbortDownload ==
    /\ Except("ClientError: GetObject")
    /\ UNCHANGED <<buffer, world>>

\* Lines 369-375 and 235-251: one turn of the loop, one range read. After
\* the last record the loop is left for line 378.
DownloadElement ==
    /\ pc = "download"
    /\ k <= Len(selected_elements)
    /\ LET elem == selected_elements[k]
       IN  \E r \in RangeResponses(elem.start_byte, elem.end_byte) :
             /\ log' = Append(log, LogEntry("get_object",
                                    GribKey(date_str, cycle_str, forecast_hour),
                                    Some(elem.start_byte), Some(elem.end_byte - 1),
                                    ~r.raised, r.data))
             /\ IF r.raised
                THEN AbortDownload
                ELSE /\ merged_data' = Extend(merged_data, r.data)
                     /\ total_bytes' = total_bytes + Len(r.data)
                     /\ k' = k + 1
                     /\ pc' = IF k = Len(selected_elements) THEN "makedirs" ELSE "download"
                     /\ result' = result
                     /\ UNCHANGED world
    /\ UNCHANGED <<dt, args, exc, date_str, cycle_str, parsed>>

\* Line 378: os.makedirs(os.path.dirname(output_path), exist_ok=True). The
\* empty name of a bare file's directory cannot be made; a missing directory
\* is made unless the system refuses.
MakeDirs ==
    /\ pc = "makedirs"
    /\ LET d == Dirname(output_path)
       IN  \E made \in IF d = <<>> THEN {FALSE}
                       ELSE IF d \in dirs THEN {TRUE} ELSE {TRUE, FALSE} :
             /\ log' = Append(log, LogEntry("makedirs", d, None, None, made, <<>>))
             /\ IF made
                THEN /\ dirs' = dirs \cup {d}
                     /\ pc' = "open"
                     /\ result' = result
                ELSE /\ Except(IF d = <<>> THEN "FileNotFoundError: ''"
                               ELSE "PermissionError")
                     /\ dirs' = dirs
    /\ UNCHANGED <<dt, args, idx_object, dest, dest0, dirs0, exc, date_str, cycle_str,
                   parsed, buffer>>

\* Line 379: open(output_path, "wb") creates the file or cuts it to nothing,
\* unless the system refuses.
OpenFile ==
    /\ pc = "open"
    /\ \E opened \in BOOLEAN :
         /\ log' = Append(log, LogEntry("open", output_path, None, None, opened, <<>>))
         /\ IF opened
            THEN /\ dest' = Some(<<>>)
                 /\ pc' = "write"
                 /\ result' = result
            ELSE /\ Except("PermissionError")
                 /\ dest' = dest
    /\ UNCHANGED <<dt, args, idx_object, dirs, dest0, dirs0, exc, date_str, cycle_str,
                   parsed, buffer>>

\* How many bytes of `data` a write may leave in the file: all of them, or,
\* when the system stops it, none or a part (half stands for every part).
WrittenLengths(data) == {0, Len(data) \div 2, Len(data)}

\* Line 380 and the end of the with block: the buffer is written and the
\* file closed; the system may stop the write before all bytes are out.
WriteFile ==
    /\ pc = "write"
    /\ \E n \in WrittenLengths(merged_data) :
         /\ dest' = Some(SubSeq(merged_data, 1, n))
         /\ log' = Append(log, LogEntry("write", output_path, None, None,
                                       n = Len(merged_data), SubSeq(merged_data, 1, n)))
         /\ IF n = Len(merged_data)
            THEN /\ pc' = "finish"
                 /\ result' = result
            ELSE Except("OSError: No space left on device")
    /\ UNCHANGED <<dt, args, idx_object, dirs, dest0, dirs0, exc, date_str, cycle_str,
                   parsed, buffer>>

\* Lines 382-399: the metrics are computed and the result returned.
Finish ==
    /\ pc = "finish"
    /\ \E total_time \in Elapsed :
         result' = Some(SuccessResult(result[1], total_bytes, total_time))
    /\ pc' = "returned"
    /\ UNCHANGED <<dt, args, world, exc, date_str, cycle_str, parsed, buffer, log>>

Next ==
    \/ Normalize
    \/ FetchIndex
    \/ ParseAndMatch
    \/ DownloadElement
    \/ MakeDirs
    \/ OpenFile
    \/ WriteFile
    \/ Finish

Spec == Init /\ [][Next]_vars

\* The same program over every kind of index line, for one request.
InitIdx ==
    /\ InitWith(IndexTexts(AllLines), {<<Target(TMP, Level2m), Target(UGRD, Level10m)>>})
    /\ dt = DateTime(2025, 2, 28, 18, None)
    /\ output_path = DirPath
    /\ dest = None

SpecIdx == InitIdx /\ [][Next]_vars

\* ----------------------------------------------------------- properties

Returned == pc = "returned"

Failed == Returned /\ ~result[1].success

Succeeded == Returned /\ result[1].success

IsRangeRead(e) == e.op = "get_object" /\ e.first # None

\* The range reads issued so far, in the order of their issue.
RangeReads == SelectSeq(log, IsRangeRead)

IsLocalOp(e) == e.op \in {"makedirs", "open", "write"}

RECURSIVE SumLengths(_)
SumLengths(recs) ==
    IF recs = <<>> THEN 0
    ELSE (Head(recs).end_byte - Head(recs).start_byte) + SumLengths(Tail(recs))

RECURSIVE ConcatData(_)
ConcatData(entries) ==
    IF entries = <<>> THEN <<>> ELSE Head(entries).data \o ConcatData(Tail(entries))

C2_NeverRaises ==
    /\ pc # "raised"
    /\ exc = None
    /\ (Returned /\ (\E n \in 1..Len(log) : ~log[n].ok)
          => ~result[1].success /\ result[1].error_message # None)

\* No target equals the variable and level of a record the parser emitted.
NothingMatches ==
    LET p == parse_idx_content(idx_content[1])
    IN  \A t \in 1..Len(elements) : \A j \in 1..Len(p.elements) :
            ~(p.elements[j].variable = elements[t].name
              /\ p.elements[j].level = elements[t].level)

\* C3: once the index is fetched and no requested pair matches a parsed
\* record, the call returns a failure whose message is "Specified elements
\* not found" with the requested elements, and no range read is issued.
C3_NoMatchMessage ==
    (idx_content # None /\ pc # "parse" /\ NothingMatches) =>
        /\ Failed
        /\ result[1].error_message =
             Some(<<"Specified elements not found: ", elements>>)
        /\ RangeReads = <<>>

\* C4: a returned result is a success (no error message, the three metrics
\* present) or a failure (an error message, the three metrics absent), and
\* either way it carries the request's date, cycle, forecast hour, elements
\* and path.
C4_ResultShape ==
    Returned =>
        LET r == result[1]
        IN  /\ \/ /\ r.success
                  /\ r.error_message = None
                  /\ r.file_size_mb # None
                  /\ r.download_time_s # None
                  /\ r.download_speed_mbs # None
               \/ /\ ~r.success
                  /\ r.error_message # None
                  /\ r.file_size_mb = None
                  /\ r.download_time_s = None
                  /\ r.download_speed_mbs = None
            /\ r.date = StrfDate(dt)
            /\ r.cycle = StrfHour(dt)
            /\ r.forecast_hour = forecast_hour
            /\ r.elements = elements
            /\ r.file_path = Some(output_path)

\* A call for 2025-02-28 18:00 UTC returned a success.
C4_Witness == Succeeded /\ result[1].date = <<"2", "0", "2", "5", "0", "2", "2", "8">>

\* Every range read returned exactly the end - start bytes asked for.
ContractHonoured ==
    LET reads == RangeReads
    IN  \A i \in 1..Len(reads) :
            /\ reads[i].ok
            /\ Len(reads[i].data) = reads[i].last[1] - reads[i].first[1] + 1

\* C5: after a success whose range reads each returned end - start bytes,
\* the destination file's size and the reported byte count are the sum of
\* end_byte - start_byte over the matched records, and the file holds the
\* bytes the reads returned, one read after the other in match order.
C5_SizeAndContent ==
    (Succeeded /\ ContractHonoured) =>
        LET reads == RangeReads
            sum == SumLengths(selected_elements)
        IN  /\ dest # None
            /\ Len(dest[1]) = sum
            /\ total_bytes = sum
            /\ result[1].file_size_mb = Some(Ratio(sum, MiB))
            /\ Len(reads) = Len(selected_elements)
            /\ \A i \in 1..Len(reads) :
                  /\ reads[i].first = Some(selected_elements[i].start_byte)
                  /\ reads[i].last = Some(selected_elements[i].end_byte - 1)
            /\ dest[1] = ConcatData(reads)

\* A success over two matched records, the later one lying before the
\* earlier one in the grid file.
C5_Witness ==
    /\ Succeeded
    /\ ContractHonoured
    /\ Len(selected_elements) = 2
    /\ selected_elements[1].start_byte > selected_elements[2].start_byte
    /\ dest = Some(<<2, 3, 4, 0, 1>>)

\* The index was parsed to its end and the targets were matched: line 358
\* was passed, the ValueError of int() was not raised.
Matched ==
    /\ idx_content # None
    /\ pc # "parse"
    /\ result[1].error_message # Some(<<"Error downloading data: ", ValueErrorText>>)

\* The (target, record) positions whose variable and level are equal.
MatchPairs ==
    {p \in (1..Len(elements)) \X (1..Len(grib_elements)) :
        /\ grib_elements[p[2]].variable = elements[p[1]].name
        /\ grib_elements[p[2]].level = elements[p[1]].level}

\* How many pairs of `pairs` stand at or before pair p, by target first and
\* by record within one target.
PairRank(pairs, p) ==
    Cardinality({q \in pairs :
                    q[1] < p[1] \/ (q[1] = p[1] /\ q[2] <= p[2])})

\* C6: find_elements returns exactly the records equal to a target in
\* variable and level, once per matching (target, record) pair, ordered by
\* target and by index position within a target; get_byte_ranges returns the
\* (start_byte, end_byte) pairs of that sequence in that order.
C6_MatchOrder ==
    Matched =>
        LET ranges == get_byte_ranges(grib_elements, elements)
            pairs == MatchPairs
        IN  /\ Len(selected_elements) = Cardinality(pairs)
            /\ Len(ranges) = Cardinality(pairs)
            /\ \A p \in pairs :
                  /\ selected_elements[PairRank(pairs, p)] = grib_elements[p[2]]
                  /\ ranges[PairRank(pairs, p)] =
                       <<grib_elements[p[2]].start_byte, grib_elements[p[2]].end_byte>>

\* Two targets given in the order opposite to the index order of their
\* records: the matched sequence is not sorted by byte offset.
C6_Witness ==
    /\ Matched
    /\ Len(elements) = 2
    /\ Len(selected_elements) = 2
    /\ selected_elements[1].variable = UGRD
    /\ selected_elements[2].variable = TMP
    /\ selected_elements[1].start_byte > selected_elements[2].start_byte

\* The lines of the index text, each with its colon-separated fields.
IdxLines == Split(idx_content[1], NL)

FieldsOf(lines) == [i \in 1..Len(lines) |-> Split(Strip(lines[i]), ":")]

\* Line i is not blank and has at least six fields (a blank line has one
\* field, the empty one).
IsEntryLine(fields, i) == Len(fields[i]) >= 6

\* Line i is followed by a line that is not blank and has an offset field.
HasEndLine(fields, i) == i < Len(fields) /\ Len(fields[i + 1]) >= 2

C8_MalformedLineSkipped ==
    Returned =>
        result[1].error_message # Some(<<"Error downloading data: ", ValueErrorText>>)

\* C9: every record the parser emits has start_byte < end_byte, and every
\* range read asks for a first byte that is not after its last byte.
C9_RecordsNonEmpty ==
    /\ \A n \in 1..Len(grib_elements) :
          grib_elements[n].start_byte < grib_elements[n].end_byte
    /\ \A i \in 1..Len(RangeReads) : RangeReads[i].first[1] <= RangeReads[i].last[1]

\* C10: when the call returns a failure, the destination file is as it was
\* before the call.
C10_FailureKeepsDestination == Failed => dest = dest0

\* The system refused to make a named directory, to open the file or to take
\* all the bytes: the destination is not in a writable location.
IsRefusal(e) ==
    /\ ~e.ok
    /\ \/ e.op = "makedirs" /\ e.key # <<>>
       \/ e.op \in {"open", "write"}

\* Every matched record was read, and every read succeeded.
AllReadsSucceeded ==
    LET reads == RangeReads
    IN  /\ Len(selected_elements) >= 1
        /\ Len(reads) = Len(selected_elements)
        /\ \A i \in 1..Len(reads) : reads[i].ok

\* C11: a call whose index fetch succeeded, whose match is not empty and whose
\* range reads all succeeded returns a success, with the destination's
\* directory in place and the whole buffer in the file, whenever the system
\* refuses nothing at the destination, a bare file name included.
C11_WritableDestinationSucceeds ==
    (Returned /\ AllReadsSucceeded /\ \A n \in 1..Len(log) : ~IsRefusal(log[n])) =>
        /\ Succeeded
        /\ dest = Some(merged_data)
        /\ Dirname(output_path) # <<>> => Dirname(output_path) \in dirs

IsIndexFetch(e) == e.op = "get_object" /\ e.first = None

\* C12: the operations of a call follow one order. The first is the fetch of
\* the whole index object, issued once, and nothing follows it unless it
\* succeeded. Then come the range reads, the i-th for the i-th matched
\* record and for its bytes start_byte..end_byte - 1 of the grid file, each
\* issued after the answer to the one before; a read that failed is the last
\* operation of the call. makedirs, open and the one write come, in this
\* order, only after every matched record was read with success, and a
\* success has issued them all.
C12_OperationOrder ==
    LET reads == RangeReads
        n == Len(log)
        nr == Len(reads)
        nsel == Len(selected_elements)
    IN  /\ n >= 1 =>
              /\ IsIndexFetch(log[1])
              /\ log[1].key = IdxKey(date_str, cycle_str, forecast_hour)
              /\ n >= 2 => log[1].ok
        /\ \A i \in 2..n : ~IsIndexFetch(log[i])
        /\ nr <= nsel
        /\ \A i \in 1..nr :
              /\ log[i + 1] = reads[i]
              /\ reads[i].key = GribKey(date_str, cycle_str, forecast_hour)
              /\ reads[i].first = Some(selected_elements[i].start_byte)
              /\ reads[i].last = Some(selected_elements[i].end_byte - 1)
              /\ ~reads[i].ok => i = nr /\ n = nr + 1 /\ Failed
        /\ n > nr + 1 =>
              /\ nr = nsel
              /\ nsel >= 1
              /\ n <= nr + 4
              /\ log[nr + 2].op = "makedirs"
              /\ n >= nr + 3 => log[nr + 2].ok /\ log[nr + 3].op = "open"
              /\ n >= nr + 4 => log[nr + 3].ok /\ log[nr + 4].op = "write"
        /\ Succeeded => nr = nsel /\ n = nr + 4 /\ log[n].ok

\* A success after two range reads, the second for bytes that lie before
\* those of the first.
C12_Witness ==
    /\ Succeeded
    /\ Len(RangeReads) = 2
    /\ RangeReads[1].first = Some(2)
    /\ RangeReads[1].last = Some(4)
    /\ RangeReads[2].first = Some(0)
    /\ RangeReads[2].last = Some(1)
    /\ Len(log) = 6

====
